---- MODULE Spec2Model ----
(***************************************************************************)
(* Incremental synchronisation and caching engine of chess-lense:         *)
(* DataManager.check_for_updates_and_init (services/data_manager.py),     *)
(* ChesscomDownloader (services/chesscom_downloader.py), FileCache        *)
(* (services/file_cache.py) and GameRow.from_game (models.py).            *)
(*                                                                         *)
(* Time is counted in whole hours.  Optional strings that are None are    *)
(* the string NoStr, Optional timestamps that are None are NoTime.        *)
(* A file that does not exist is a record with exists = FALSE.            *)
(*                                                                         *)
(* Spec is the sync run step by step; SpecCorrupt adds an index.json that *)
(* stops parsing, SpecCrash a process that dies before save_index.        *)
(* SpecMerge, SpecStale, SpecNormalize and SpecResult apply update_games, *)
(* is_update_needed and from_game to inputs drawn from bounded sets;      *)
(* SpecOpenings builds the opening index of a catalog and matches a       *)
(* game's moves against it.                                                *)
(***************************************************************************)
EXTENDS Integers, Sequences, FiniteSets, TLC

VARIABLES
    now,        \* datetime.now(), in hours
    indexFile,  \* <user_folder>/index.json
    rawFile,    \* <user_folder>/raw.parquet   (canonical dataset)
    gamesFile,  \* <user_folder>/games.parquet (enriched dataset)
    pc,         \* position of the running check_for_updates_and_init
    idx,        \* its local variable idx (IndexModel)
    i,          \* its loop counter over idx.archives
    rows,       \* its local variable rows (list[GameRow])
    listStatus, \* answer to the archive-list request of this run
    reqs,       \* per archive entry passed by the loop: "skip" or the answer's tag
    coldStart,  \* this run started with no file of the user on disk
    sameData,   \* every 200 answer of this run repeated what the dataset holds
    before,     \* the dataset file as the latest update_games call read it
    corruptStart, \* this run started with an index file that does not parse
    crash,      \* the rows merged by the run that died before save_index
    arg,        \* the arguments of a function called on its own
    ret,        \* what load_games, or a function called on its own, returned
    progress    \* the calls progress_cb(i, total) of this run, in order

vars == <<now, indexFile, rawFile, gamesFile, pc, idx, i, rows,
          listStatus, reqs, coldStart, sameData, before,
          corruptStart, crash, arg, ret, progress>>

-----------------------------------------------------------------------------
(* Bounds of the model *)

\* Tick advances the clock by TickHours, at most MaxTicks times.
TickHours == 13
MaxTicks == 2
\* A monthly archive answer holds at most MaxPayload games.
MaxPayload == 2
\* Inputs of the merge-only specification.
MaxExisting == 3
MaxBatch == 2
\* Clock readings, in hours, of the specification of is_update_needed.
MaxHours == 30
\* The ply bound of the opening index (max_plies, 80 in the code), scaled
\* down; move lists are up to one ply longer.
MaxPlies == 2

-----------------------------------------------------------------------------
(* Values *)

NoStr == "none"
NoTime == -1
\* IndexEntry.created_on defaults to datetime.now() evaluated once, when the
\* class body is executed (module import).
ImportTime == 0
\* timedelta(hours=24)
FreshnessHours == 24

Username == "hikaru"
ArchivesUrl == "archives/hikaru"
ArchiveUrls == <<"a1", "a2">>

\* str.strip().lower() on the usernames that occur in payloads
Lower(s) ==
    CASE s = "Hikaru"  -> "hikaru"
      [] s = " hikaru" -> "hikaru"
      [] s = "Magnus"  -> "magnus"
      [] OTHER         -> s

\* Lexicographic rank of the key strings (pandas sorts the key column as
\* strings; missing keys sort last).
KeyOrder == <<"p1", "u1", "u2", "u3">>
KeyRank(k) ==
    IF k = NoStr THEN Len(KeyOrder) + 1
    ELSE CHOOSE n \in 1..Len(KeyOrder) : KeyOrder[n] = k

\* end_time is month * 10 + day; dt.to_period("M") keeps the month.
ToPeriodM(t) == t \div 10

-----------------------------------------------------------------------------
(* IndexEntry, IndexModel *)

IndexEntry(u) ==
    [url |-> u, etag |-> NoStr, created_on |-> ImportTime, updated_on |-> NoTime]

\* is_update_needed with <= for <
is_update_needed_AtLeast(e, t) ==
    e.updated_on = NoTime \/ e.updated_on <= t - FreshnessHours

is_update_needed(e, t) ==
    e.updated_on = NoTime \/ e.updated_on < t - FreshnessHours

IndexModel(al) == [archives_list |-> al, archives |-> <<>>]

\* The file index.json: valid is FALSE when its text is not an IndexModel.
NoIndexFile ==
    [exists |-> FALSE, valid |-> FALSE, idx |-> IndexModel(IndexEntry(ArchivesUrl))]

\* FileCache.save_index
save_index(ix) == [exists |-> TRUE, valid |-> TRUE, idx |-> ix]

\* load_index without the except branch of lines 63-65
load_index_Unchecked(file) ==
    IF file.exists
    THEN [found |-> TRUE, idx |-> file.idx]
    ELSE [found |-> FALSE, idx |-> IndexModel(IndexEntry(ArchivesUrl))]

\* FileCache.load_index: found = FALSE is the None of lines 58 and 65
load_index(file) ==
    IF file.exists /\ file.valid
    THEN [found |-> TRUE, idx |-> file.idx]
    ELSE [found |-> FALSE, idx |-> IndexModel(IndexEntry(ArchivesUrl))]

NoDataFile == [exists |-> FALSE, df |-> <<>>]

-----------------------------------------------------------------------------
(* GameModel payloads and GameRow (models.py) *)

PlayerRef(u, r, res) == [username |-> u, rating |-> r, result |-> res]

GameModel(u, p, t, w, b) ==
    [url |-> u, pgn |-> p, end_time |-> t, white |-> w, black |-> b]

\* result.lower() of line 135, on the result codes of the model
ResultLower(s) ==
    CASE s = "WIN"      -> "win"
      [] s = "Agreed"   -> "agreed"
      [] s = "Resigned" -> "resigned"
      [] OTHER          -> s

\* simplify_result without the result.lower() of line 135
simplify_result_NoLower(result) ==
    IF result = NoStr THEN NoStr
    ELSE IF result \in {"win"} THEN "win"
    ELSE IF result \in {"agreed", "stalemate", "repetition", "insufficient",
                        "50move", "timevsinsufficient"} THEN "draw"
    ELSE IF result \in {"checkmated", "resigned", "timeout", "abandoned",
                        "lose"} THEN "loss"
    ELSE NoStr

simplify_result(result) ==
    IF result = NoStr THEN NoStr
    ELSE IF ResultLower(result) \in {"win"} THEN "win"
    ELSE IF ResultLower(result) \in
                {"agreed", "stalemate", "repetition", "insufficient",
                 "50move", "timevsinsufficient"} THEN "draw"
    ELSE IF ResultLower(result) \in
                {"checkmated", "resigned", "timeout", "abandoned",
                 "lose"} THEN "loss"
    ELSE NoStr

GameRow(g, me, other, colour) ==
    [end_time |-> g.end_time,
     username |-> me.username,
     opponent_username |-> other.username,
     user_played_as |-> colour,
     user_result |-> me.result,
     user_result_simple |-> simplify_result(me.result),
     opponent_result |-> other.result,
     user_rating |-> me.rating,
     opponent_rating |-> other.rating,
     game_url |-> g.url,
     pgn_url |-> g.pgn]

\* from_game: raised = TRUE is the UnboundLocalError of line 112, reached
\* through the else branch that binds none of the locals.
from_game(g, username) ==
    IF g.black.username # NoStr /\ Lower(g.black.username) = username
    THEN [raised |-> FALSE, row |-> GameRow(g, g.black, g.white, "black")]
    ELSE IF g.white.username # NoStr /\ Lower(g.white.username) = username
    THEN [raised |-> FALSE, row |-> GameRow(g, g.white, g.black, "white")]
    ELSE [raised |-> TRUE, row |-> GameRow(g, g.white, g.black, NoStr)]

\* rows.extend(GameRow.from_game(g, username) for g in games_rows)
AnyRaises(games, username) ==
    \E n \in 1..Len(games) : from_game(games[n], username).raised

FromGames(games, username) ==
    [n \in 1..Len(games) |-> from_game(games[n], username).row]

-----------------------------------------------------------------------------
(* FileCache.update_games (file_cache.py) *)

RECURSIVE SelectSeqIdx(_, _, _)
\* the elements of s at the positions in keep, in order, from position n on
SelectSeqIdx(s, keep, n) ==
    IF n > Len(s) THEN <<>>
    ELSE (IF n \in keep THEN <<s[n]>> ELSE <<>>) \o SelectSeqIdx(s, keep, n + 1)

\* Stable sort of a sequence of <<code, element>> pairs by code.
InsertByCode(sorted, p) ==
    LET after == {n \in 1..Len(sorted) : sorted[n][1] <= p[1]}
        k == IF after = {} THEN 0 ELSE CHOOSE n \in after : \A m \in after : m <= n
    IN  SubSeq(sorted, 1, k) \o <<p>> \o SubSeq(sorted, k + 1, Len(sorted))

RECURSIVE SortByCode(_, _)
SortByCode(ps, n) ==
    IF n = 0 THEN <<>> ELSE InsertByCode(SortByCode(ps, n - 1), ps[n])

\* merged["game_url"].combine_first(merged["pgn_url"]): the columns game_url
\* and pgn_url exist in every frame built from GameRow.model_dump(), so the
\* composite-key branch of line 108 is never taken.
RowKey(r) == IF r.game_url # NoStr THEN r.game_url ELSE r.pgn_url

\* lines 96-100: rows of existing whose month is not a month of new_df
KeepMask(existing, new_df) ==
    LET upd_months == {ToPeriodM(new_df[n].end_time) : n \in 1..Len(new_df)}
    IN  {n \in 1..Len(existing) : ToPeriodM(existing[n].end_time) \notin upd_months}

\* DedupSort with drop_duplicates(keep="first")
DedupSort_KeepFirst(kept, new_df) ==
    LET merged == kept \o new_df
        isNew(n) == IF n > Len(kept) THEN 1 ELSE 0
        code1(n) == KeyRank(RowKey(merged[n])) * 1000 + isNew(n) * 100
                        + merged[n].end_time
        byKey == SortByCode([n \in 1..Len(merged) |-> <<code1(n), merged[n]>>],
                            Len(merged))
        firstOfKey == {n \in 1..Len(byKey) :
                        \A m \in 1..(n - 1) :
                            RowKey(byKey[m][2]) # RowKey(byKey[n][2])}
        deduped == SelectSeqIdx(byKey, firstOfKey, 1)
        byTime == SortByCode([n \in 1..Len(deduped) |->
                                <<deduped[n][2].end_time, deduped[n][2]>>],
                             Len(deduped))
    IN  [n \in 1..Len(byTime) |-> byTime[n][2]]

\* lines 117-126: sort by (__key, __is_new, end_time), keep the last row of
\* every key (missing keys count as one key), sort by end_time.
DedupSort(kept, new_df) ==
    LET merged == kept \o new_df
        isNew(n) == IF n > Len(kept) THEN 1 ELSE 0
        code1(n) == KeyRank(RowKey(merged[n])) * 1000 + isNew(n) * 100
                        + merged[n].end_time
        byKey == SortByCode([n \in 1..Len(merged) |-> <<code1(n), merged[n]>>],
                            Len(merged))
        lastOfKey == {n \in 1..Len(byKey) :
                        \A m \in (n + 1)..Len(byKey) :
                            RowKey(byKey[m][2]) # RowKey(byKey[n][2])}
        deduped == SelectSeqIdx(byKey, lastOfKey, 1)
        byTime == SortByCode([n \in 1..Len(deduped) |->
                                <<deduped[n][2].end_time, deduped[n][2]>>],
                             Len(deduped))
    IN  [n \in 1..Len(byTime) |-> byTime[n][2]]

\* df_final of update_games, for the file read from raw_path and the batch
df_final(file, games_rows) ==
    IF ~file.exists THEN games_rows
    ELSE IF games_rows = <<>> THEN file.df
    ELSE DedupSort(SelectSeqIdx(file.df, KeepMask(file.df, games_rows), 1),
                   games_rows)

\* lines 129-134: the frame is written only when it is not empty
update_games(file, games_rows) ==
    LET final == df_final(file, games_rows)
    IN  IF final # <<>> THEN [exists |-> TRUE, df |-> final] ELSE file

-----------------------------------------------------------------------------
(* The remote API: what a request can be answered with *)

EtagHeaders == {"e1"}

Hikaru(res) == PlayerRef("Hikaru", 2800, res)
Magnus(res) == PlayerRef("Magnus", 2850, res)
Levon(res) == PlayerRef("levon", 2700, res)

\* The games the archives of the model can hold, by archive URL.  The last
\* game of a2 is one in which neither player is the tracked user.
GamesOf(u) ==
    IF u = "a1"
    THEN {GameModel("u1", "p1", 11, Hikaru("win"), Magnus("resigned"))}
    ELSE {GameModel("u2", "p2", 21, Magnus("win"), Hikaru("checkmated")),
          GameModel("u3", "p3", 22, Magnus("agreed"), Levon("agreed"))}

SeqsUpTo(S, n) == UNION {[1..m -> S] : m \in 0..n}

\* An archive list is chronological and names as many URLs as there are
\* archives, or fewer; it may name a URL twice.
UrlLists ==
    {[n \in 1..Len(l) |-> ArchiveUrls[l[n]]] :
        l \in {q \in SeqsUpTo(1..Len(ArchiveUrls), Len(ArchiveUrls)) :
                \A n \in 1..(Len(q) - 1) : q[n] <= q[n + 1]}}

\* The games of a monthly archive come in chronological order; a game may
\* be listed twice.
Payloads(u) ==
    {q \in SeqsUpTo(GamesOf(u), MaxPayload) :
        \A n \in 1..(Len(q) - 1) : q[n].end_time <= q[n + 1].end_time}

ErrorStatuses == {"neterr", "429", "404", "500"}

ListResponses ==
    {[status |-> "200", urls |-> l, etag |-> e] : l \in UrlLists, e \in EtagHeaders}
    \cup {[status |-> s, urls |-> <<>>, etag |-> NoStr] :
            s \in ErrorStatuses \cup {"304"}}

ArchiveResponses(u) ==
    {[status |-> "200", json |-> TRUE, games |-> g, etag |-> e] :
        g \in Payloads(u), e \in EtagHeaders}
    \cup {[status |-> "200", json |-> FALSE, games |-> <<>>, etag |-> e] :
            e \in EtagHeaders}
    \cup {[status |-> s, json |-> FALSE, games |-> <<>>, etag |-> NoStr] :
            s \in ErrorStatuses \cup {"304"}}

-----------------------------------------------------------------------------
(* ChesscomDownloader (chesscom_downloader.py) *)

\* download_index builds a new IndexModel; prev is taken from that new
\* model, so it is empty and every listed URL gets a new IndexEntry.
download_index(r, t) ==
    LET fresh == IndexModel(IndexEntry(ArchivesUrl))
    IN  IF r.status = "200"
        THEN [archives_list |-> [fresh.archives_list EXCEPT
                                    !.etag = r.etag, !.updated_on = t],
              archives |-> [n \in 1..Len(r.urls) |-> IndexEntry(r.urls[n])]]
        ELSE IF r.status = "304"
        THEN [fresh EXCEPT !.archives_list.updated_on = t]
        ELSE fresh

\* _fetch_conditional_json: the entry as the request leaves it
fetch_entry(e, r, t) ==
    IF r.status = "200" THEN [e EXCEPT !.etag = r.etag, !.created_on = t] ELSE e

\* download_archive: TRUE when it returns a list of games, FALSE for None
has_games(r) == r.status = "200" /\ r.json

\* What the loop of check_for_updates_and_init got for one archive entry:
\* the status, and for a 200 what the body was.
AnswerTag(r, username) ==
    IF r.status # "200" THEN r.status
    ELSE IF ~r.json THEN "200-unparsable"
    ELSE IF r.games = <<>> THEN "200-empty"
    ELSE IF AnyRaises(r.games, username) THEN "200-anomaly"
    ELSE "200"

-----------------------------------------------------------------------------
(* Enrichment (DataManager._preprocess_and_save) *)

\* FileCache.load_games: the enriched dataset, an empty frame when none
load_games(file) == IF file.exists THEN file.df ELSE <<>>

\* cache.load_games_raw(): the raw dataset, an empty frame when there is none
load_games_raw(file) == IF file.exists THEN file.df ELSE <<>>

\* df["pgn"] of line 160 raises on a frame without columns
preprocess_raises(df) == df = <<>>

\* One enriched row per raw row: the dropped columns go, the derived ones
\* (here the presence of an opening match) come.
EnrichRow(r) ==
    [end_time |-> r.end_time,
     opponent_username |-> r.opponent_username,
     user_played_as |-> r.user_played_as,
     user_result |-> r.user_result,
     user_result_simple |-> r.user_result_simple,
     user_rating |-> r.user_rating,
     pgn_url |-> r.pgn_url,
     n_plies |-> 0]

preprocess(df) == [n \in 1..Len(df) |-> EnrichRow(df[n])]

-----------------------------------------------------------------------------
(* DataManager.check_for_updates_and_init (data_manager.py) *)

Count(s, x) == Cardinality({n \in 1..Len(s) : s[n] = x})
SameBag(s, t) ==
    /\ Len(s) = Len(t)
    /\ \A n \in 1..Len(s) : Count(s, s[n]) = Count(t, s[n])

MonthRows(df, m) ==
    SelectSeqIdx(df, {n \in 1..Len(df) : ToPeriodM(df[n].end_time) = m}, 1)

\* The month an archive URL stands for
ArchiveMonth(u) == CHOOSE m \in 1..Len(ArchiveUrls) : ArchiveUrls[m] = u

\* A 200 answer that repeats what the dataset holds for that month
RepeatsStored(u, newRows) ==
    SameBag(newRows, MonthRows(load_games_raw(rawFile), ArchiveMonth(u)))

Init ==
    /\ now = 0
    /\ indexFile = NoIndexFile
    /\ rawFile = NoDataFile
    /\ gamesFile = NoDataFile
    /\ pc = "idle"
    /\ idx = NoIndexFile.idx
    /\ i = 0
    /\ rows = <<>>
    /\ listStatus = "none"
    /\ reqs = <<>>
    /\ coldStart = FALSE
    /\ sameData = TRUE
    /\ before = NoDataFile
    /\ corruptStart = FALSE
    /\ crash = <<>>
    /\ arg = NoStr
    /\ ret = <<>>
    /\ progress = <<>>

\* Time passes between two runs.
Tick ==
    /\ pc = "idle"
    /\ now + TickHours <= MaxTicks * TickHours
    /\ now' = now + TickHours
    /\ UNCHANGED <<indexFile, rawFile, gamesFile, pc, idx, i, rows,
                   listStatus, reqs, coldStart, sameData, before,
                   corruptStart, crash, arg, ret, progress>>

\* The text of index.json is damaged between two runs.
CorruptIndex ==
    /\ pc = "idle"
    /\ indexFile.exists
    /\ indexFile.valid
    /\ indexFile' = [indexFile EXCEPT !.valid = FALSE]
    /\ UNCHANGED <<now, rawFile, gamesFile, pc, idx, i, rows,
                   listStatus, reqs, coldStart, sameData, before,
                   corruptStart, crash, arg, ret, progress>>

\* LoadGames that writes an empty games.parquet when there is none
LoadGames_Creates ==
    /\ pc = "idle"
    /\ ret' = load_games(gamesFile)
    /\ gamesFile' = IF gamesFile.exists THEN gamesFile
                    ELSE [exists |-> TRUE, df |-> <<>>]
    /\ pc' = "loaded"
    /\ UNCHANGED <<now, indexFile, rawFile, idx, i, rows,
                   listStatus, reqs, coldStart, sameData, before,
                   corruptStart, crash, arg, progress>>

\* FileCache.load_games, called between two runs
LoadGames ==
    /\ pc = "idle"
    /\ ret' = load_games(gamesFile)
    /\ pc' = "loaded"
    /\ UNCHANGED <<now, indexFile, rawFile, gamesFile, idx, i, rows,
                   listStatus, reqs, coldStart, sameData, before,
                   corruptStart, crash, arg, progress>>

\* lines 37-47, the index is still fresh: it is used as loaded
SyncStartFresh ==
    /\ pc = "idle"
    /\ load_index(indexFile).found
    /\ ~is_update_needed(load_index(indexFile).idx.archives_list, now)
    /\ idx' = load_index(indexFile).idx
    /\ listStatus' = "skip"
    /\ pc' = "loop"
    /\ i' = 1
    /\ rows' = <<>>
    /\ reqs' = <<>>
    /\ coldStart' = FALSE
    /\ sameData' = TRUE
    /\ corruptStart' = FALSE
    /\ progress' = <<>>
    /\ UNCHANGED <<now, indexFile, rawFile, gamesFile, before, crash, arg, ret>>

\* lines 37-47, no index, one that does not parse or a stale one:
\* download_index and save_index.  A RequestException of the archive-list
\* request is re-raised (line 60).
SyncStartDownload ==
    /\ pc = "idle"
    /\ \/ ~load_index(indexFile).found
       \/ is_update_needed(load_index(indexFile).idx.archives_list, now)
    /\ \E r \in ListResponses :
        /\ listStatus' = r.status
        /\ IF r.status = "neterr"
           THEN /\ pc' = "raised"
                /\ UNCHANGED <<idx, indexFile>>
           ELSE /\ pc' = "loop"
                /\ idx' = download_index(r, now)
                /\ indexFile' = save_index(download_index(r, now))
    /\ i' = 1
    /\ rows' = <<>>
    /\ reqs' = <<>>
    /\ coldStart' = (~indexFile.exists /\ ~rawFile.exists /\ ~gamesFile.exists)
    /\ sameData' = TRUE
    /\ corruptStart' = (indexFile.exists /\ ~indexFile.valid)
    /\ progress' = <<>>
    /\ UNCHANGED <<now, rawFile, gamesFile, before, crash, arg, ret>>

\* lines 52-57: an entry that needs no update is skipped
SkipArchive ==
    /\ pc = "loop"
    /\ i <= Len(idx.archives)
    /\ ~is_update_needed(idx.archives[i], now)
    /\ i' = i + 1
    /\ reqs' = Append(reqs, "skip")
    /\ UNCHANGED <<now, indexFile, rawFile, gamesFile, pc, idx, rows,
                   listStatus, coldStart, sameData, before,
                   corruptStart, crash, arg, ret, progress>>

\* lines 59-62: download_archive returned None
FetchNone ==
    /\ pc = "loop"
    /\ i <= Len(idx.archives)
    /\ is_update_needed(idx.archives[i], now)
    /\ \E r \in ArchiveResponses(idx.archives[i].url) :
        /\ ~has_games(r)
        /\ idx' = [idx EXCEPT !.archives[i] = fetch_entry(@, r, now)]
        /\ reqs' = Append(reqs, AnswerTag(r, Username))
    /\ i' = i + 1
    /\ UNCHANGED <<now, indexFile, rawFile, gamesFile, pc, rows,
                   listStatus, coldStart, sameData, before,
                   corruptStart, crash, arg, ret, progress>>

\* lines 59-68: download_archive returned games; from_game may raise
FetchGames ==
    /\ pc = "loop"
    /\ i <= Len(idx.archives)
    /\ is_update_needed(idx.archives[i], now)
    /\ \E r \in ArchiveResponses(idx.archives[i].url) :
        /\ has_games(r)
        /\ reqs' = Append(reqs, AnswerTag(r, Username))
        /\ IF AnyRaises(r.games, Username)
           THEN /\ pc' = "raised"
                /\ idx' = [idx EXCEPT !.archives[i] = fetch_entry(@, r, now)]
                /\ UNCHANGED <<i, rows, sameData, progress>>
           ELSE /\ rows' = rows \o FromGames(r.games, Username)
                /\ progress' = Append(progress, <<i, Len(idx.archives) + 2>>)
                /\ idx' = [idx EXCEPT !.archives[i] =
                              [fetch_entry(@, r, now) EXCEPT !.updated_on = now]]
                /\ sameData' = (sameData /\ RepeatsStored(idx.archives[i].url,
                                                FromGames(r.games, Username)))
                /\ i' = i + 1
                /\ UNCHANGED pc
    /\ UNCHANGED <<now, indexFile, rawFile, gamesFile, listStatus, coldStart,
                   before, corruptStart, crash, arg, ret>>

\* lines 70-73: cache.update_games_raw(rows)
MergeRows ==
    /\ pc = "loop"
    /\ i > Len(idx.archives)
    /\ Len(rows) > 0
    /\ progress' = Append(progress,
                          <<Len(idx.archives) + 1, Len(idx.archives) + 2>>)
    /\ rawFile' = update_games(rawFile, rows)
    /\ before' = rawFile
    /\ pc' = "save_index"
    /\ UNCHANGED <<now, indexFile, gamesFile, idx, i, rows,
                   listStatus, reqs, coldStart, sameData,
                   corruptStart, crash, arg, ret>>

\* line 70 with no rows: neither the dataset nor the index is written
NoRows ==
    /\ pc = "loop"
    /\ i > Len(idx.archives)
    /\ Len(rows) = 0
    /\ pc' = "enrich"
    /\ UNCHANGED <<now, indexFile, rawFile, gamesFile, idx, i, rows,
                   listStatus, reqs, coldStart, sameData, before,
                   corruptStart, crash, arg, ret, progress>>

\* line 74: cache.save_index(idx)
SaveIndex ==
    /\ pc = "save_index"
    /\ indexFile' = save_index(idx)
    /\ pc' = "enrich"
    /\ UNCHANGED <<now, rawFile, gamesFile, idx, i, rows,
                   listStatus, reqs, coldStart, sameData, before,
                   corruptStart, crash, arg, ret, progress>>

\* The process dies between line 73 and line 74: raw.parquet is written,
\* index.json is not, the locals are gone.
CrashBeforeSaveIndex ==
    /\ pc = "save_index"
    /\ crash' = rows
    /\ pc' = "idle"
    /\ idx' = NoIndexFile.idx
    /\ i' = 0
    /\ rows' = <<>>
    /\ listStatus' = "none"
    /\ reqs' = <<>>
    /\ coldStart' = FALSE
    /\ sameData' = TRUE
    /\ before' = NoDataFile
    /\ corruptStart' = FALSE
    /\ progress' = <<>>
    /\ UNCHANGED <<now, indexFile, rawFile, gamesFile, arg, ret>>

\* Enrich over the rows of this run only
Enrich_NewRowsOnly ==
    /\ pc = "enrich"
    /\ Len(rows) > 0 \/ ~gamesFile.exists
    /\ progress' = Append(progress,
                          <<Len(idx.archives) + 2, Len(idx.archives) + 2>>)
    /\ IF preprocess_raises(load_games_raw(rawFile))
       THEN pc' = "raised" /\ UNCHANGED gamesFile
       ELSE /\ gamesFile' = [exists |-> TRUE, df |-> preprocess(rows)]
            /\ pc' = "returned"
    /\ UNCHANGED <<now, indexFile, rawFile, idx, i, rows,
                   listStatus, reqs, coldStart, sameData, before,
                   corruptStart, crash, arg, ret>>

\* lines 77-80 and _preprocess_and_save
Enrich ==
    /\ pc = "enrich"
    /\ Len(rows) > 0 \/ ~gamesFile.exists
    /\ progress' = Append(progress,
                          <<Len(idx.archives) + 2, Len(idx.archives) + 2>>)
    /\ IF preprocess_raises(load_games_raw(rawFile))
       THEN pc' = "raised" /\ UNCHANGED gamesFile
       ELSE /\ gamesFile' = [exists |-> TRUE,
                             df |-> preprocess(load_games_raw(rawFile))]
            /\ pc' = "returned"
    /\ UNCHANGED <<now, indexFile, rawFile, idx, i, rows,
                   listStatus, reqs, coldStart, sameData, before,
                   corruptStart, crash, arg, ret>>

\* line 77 false: nothing to enrich
NoEnrich ==
    /\ pc = "enrich"
    /\ ~(Len(rows) > 0 \/ ~gamesFile.exists)
    /\ pc' = "returned"
    /\ UNCHANGED <<now, indexFile, rawFile, gamesFile, idx, i, rows,
                   listStatus, reqs, coldStart, sameData, before,
                   corruptStart, crash, arg, ret, progress>>

\* The caller has the result (or the exception); the locals are gone.
Return ==
    /\ pc \in {"returned", "raised", "loaded"}
    /\ pc' = "idle"
    /\ idx' = NoIndexFile.idx
    /\ i' = 0
    /\ rows' = <<>>
    /\ listStatus' = "none"
    /\ reqs' = <<>>
    /\ coldStart' = FALSE
    /\ sameData' = TRUE
    /\ before' = NoDataFile
    /\ corruptStart' = FALSE
    /\ crash' = IF pc = "loaded" THEN crash ELSE <<>>
    /\ ret' = <<>>
    /\ progress' = <<>>
    /\ UNCHANGED <<now, indexFile, rawFile, gamesFile, arg>>

Next ==
    \/ Tick
    \/ LoadGames
    \/ SyncStartFresh
    \/ SyncStartDownload
    \/ SkipArchive
    \/ FetchNone
    \/ FetchGames
    \/ MergeRows
    \/ NoRows
    \/ SaveIndex
    \/ Enrich
    \/ NoEnrich
    \/ Return

Spec == Init /\ [][Next]_vars

\* The runs of Spec, with an index file that can be damaged between them.
NextCorrupt == Next \/ CorruptIndex

SpecCorrupt == Init /\ [][NextCorrupt]_vars

\* The runs of Spec, with a process that can die before save_index.
NextCrash == Next \/ CrashBeforeSaveIndex

SpecCrash == Init /\ [][NextCrash]_vars

-----------------------------------------------------------------------------
(* FileCache.update_games on its own: the dataset file and the batch are  *)
(* drawn from bounded sets and update_games is applied once.              *)

MergeGames ==
    {GameModel("u1", "p1", 11, Hikaru("win"), Magnus("resigned")),
     GameModel("u1", "p1", 11, Hikaru("win"), PlayerRef("Magnus", 2900, "resigned")),
     GameModel(NoStr, NoStr, 12, Hikaru("agreed"), Magnus("agreed")),
     GameModel(NoStr, "p1", 12, Magnus("timeout"), Hikaru("win")),
     GameModel(NoStr, NoStr, 21, Magnus("win"), Hikaru("checkmated")),
     GameModel("u2", "p2", 21, Magnus("win"), Hikaru("checkmated")),
     GameModel("u3", "p3", 22, Hikaru("win"), Levon("resigned")),
     GameModel("u1", "p1", 21, Hikaru("win"), Magnus("resigned"))}

MergeRowSet == {from_game(g, Username).row : g \in MergeGames}

\* A dataset file holds at least one row, in chronological order.
MergeFiles ==
    {NoDataFile} \cup
    {[exists |-> TRUE, df |-> d] :
        d \in {q \in SeqsUpTo(MergeRowSet, MaxExisting) :
                /\ q # <<>>
                /\ \A n \in 1..(Len(q) - 1) : q[n].end_time <= q[n + 1].end_time}}

InitMerge ==
    /\ now = 0
    /\ indexFile = NoIndexFile
    /\ rawFile \in MergeFiles
    /\ gamesFile = NoDataFile
    /\ pc = "call"
    /\ idx = NoIndexFile.idx
    /\ i = 0
    /\ rows \in SeqsUpTo(MergeRowSet, MaxBatch)
    /\ listStatus = "none"
    /\ reqs = <<>>
    /\ coldStart = FALSE
    /\ sameData = TRUE
    /\ before = NoDataFile
    /\ corruptStart = FALSE
    /\ crash = <<>>
    /\ arg = NoStr
    /\ ret = <<>>
    /\ progress = <<>>

UpdateGamesCall ==
    /\ pc = "call"
    /\ rawFile' = update_games(rawFile, rows)
    /\ before' = rawFile
    /\ pc' = "called"
    /\ UNCHANGED <<now, indexFile, gamesFile, idx, i, rows,
                   listStatus, reqs, coldStart, sameData,
                   corruptStart, crash, arg, ret, progress>>

NextMerge == UpdateGamesCall

SpecMerge == InitMerge /\ [][NextMerge]_vars

-----------------------------------------------------------------------------
(* IndexEntry.is_update_needed on its own: an entry that was never updated *)
(* or was updated at some hour up to now, and the clock reading now.       *)

InitStale ==
    /\ now \in 0..MaxHours
    /\ arg \in {[IndexEntry("a1") EXCEPT !.updated_on = t] :
                    t \in {NoTime} \cup 0..MaxHours}
    /\ arg.updated_on <= now
    /\ indexFile = NoIndexFile
    /\ rawFile = NoDataFile
    /\ gamesFile = NoDataFile
    /\ pc = "call"
    /\ idx = NoIndexFile.idx
    /\ i = 0
    /\ rows = <<>>
    /\ listStatus = "none"
    /\ reqs = <<>>
    /\ coldStart = FALSE
    /\ sameData = TRUE
    /\ before = NoDataFile
    /\ corruptStart = FALSE
    /\ crash = <<>>
    /\ ret = <<>>
    /\ progress = <<>>

IsUpdateNeededCall ==
    /\ pc = "call"
    /\ ret' = is_update_needed(arg, now)
    /\ pc' = "called"
    /\ UNCHANGED <<now, indexFile, rawFile, gamesFile, idx, i, rows,
                   listStatus, reqs, coldStart, sameData, before,
                   corruptStart, crash, arg, progress>>

NextStale == IsUpdateNeededCall

SpecStale == InitStale /\ [][NextStale]_vars

-----------------------------------------------------------------------------
(* GameRow.from_game on its own: a game whose players carry the usernames *)
(* of NormNames, and the username check_for_updates_and_init was given.  *)

NormNames == {NoStr, "Hikaru", "hikaru", " hikaru", "Magnus", "levon"}

TrackedNames == {"hikaru", "Hikaru", "magnus"}

NormGames ==
    {GameModel("u1", "p1", 11, PlayerRef(w, 2800, "win"),
                               PlayerRef(b, 2850, "resigned")) :
        w \in NormNames, b \in NormNames}

InitNormalize ==
    /\ arg \in {[g |-> g, username |-> u] : g \in NormGames, u \in TrackedNames}
    /\ now = 0
    /\ indexFile = NoIndexFile
    /\ rawFile = NoDataFile
    /\ gamesFile = NoDataFile
    /\ pc = "call"
    /\ idx = NoIndexFile.idx
    /\ i = 0
    /\ rows = <<>>
    /\ listStatus = "none"
    /\ reqs = <<>>
    /\ coldStart = FALSE
    /\ sameData = TRUE
    /\ before = NoDataFile
    /\ corruptStart = FALSE
    /\ crash = <<>>
    /\ ret = <<>>
    /\ progress = <<>>

\* data_manager.py line 64: GameRow.from_game(g, username)
FromGameCall ==
    /\ pc = "call"
    /\ ret' = from_game(arg.g, arg.username)
    /\ pc' = "called"
    /\ UNCHANGED <<now, indexFile, rawFile, gamesFile, idx, i, rows,
                   listStatus, reqs, coldStart, sameData, before,
                   corruptStart, crash, arg, progress>>

NextNormalize == FromGameCall

SpecNormalize == InitNormalize /\ [][NextNormalize]_vars

-----------------------------------------------------------------------------
(* GameRow.simplify_result as from_game applies it (line 116): a game of *)
(* the tracked user with the two result codes drawn from ResultCodes.    *)

ResultCodes ==
    {NoStr, "win",
     "agreed", "stalemate", "repetition", "insufficient", "50move",
     "timevsinsufficient",
     "checkmated", "resigned", "timeout", "abandoned", "lose",
     "adjudicated", "kingofthehill", "WIN", "Agreed", "Resigned"}

ResultGames ==
    {GameModel("u1", "p1", 11, PlayerRef(n[1], 2800, rw),
                               PlayerRef(n[2], 2850, rb)) :
        n \in {<<"Hikaru", "Magnus">>, <<"Magnus", "Hikaru">>},
        rw \in ResultCodes, rb \in ResultCodes}

InitResult ==
    /\ arg \in {[g |-> g, username |-> Username] : g \in ResultGames}
    /\ now = 0
    /\ indexFile = NoIndexFile
    /\ rawFile = NoDataFile
    /\ gamesFile = NoDataFile
    /\ pc = "call"
    /\ idx = NoIndexFile.idx
    /\ i = 0
    /\ rows = <<>>
    /\ listStatus = "none"
    /\ reqs = <<>>
    /\ coldStart = FALSE
    /\ sameData = TRUE
    /\ before = NoDataFile
    /\ corruptStart = FALSE
    /\ crash = <<>>
    /\ ret = <<>>
    /\ progress = <<>>

NextResult == FromGameCall

SpecResult == InitResult /\ [][NextResult]_vars

-----------------------------------------------------------------------------
(* The opening matcher (DataManager._build_exact_index and                *)
(* _match_exact_longest): the index is built from a catalog, then a game's *)
(* move list is matched against it, as _attach_opening_ids does.          *)

\* The None of an opening_id
NoId == -1

Min(a, b) == IF a <= b THEN a ELSE b
Max(a, b) == IF a >= b THEN a ELSE b

\* sans[:n]
Prefix(sans, n) == SubSeq(sans, 1, Min(Len(sans), n))

\* One step of the loop of _build_exact_index, without the comparison of
\* the ids: the later row wins.
IndexRow_LastWins(acc, row) ==
    LET key == Prefix(row.san, MaxPlies)
    IN  [idx |-> [k \in DOMAIN acc.idx \cup {key} |->
                    IF k = key THEN row.opening_id ELSE acc.idx[k]],
         max_len |-> Max(acc.max_len, Len(key))]

\* One step of the loop of _build_exact_index (lines 119-125)
IndexRow(acc, row) ==
    LET key == Prefix(row.san, MaxPlies)
    IN  [idx |-> IF key \notin DOMAIN acc.idx \/ row.opening_id < acc.idx[key]
                 THEN [k \in DOMAIN acc.idx \cup {key} |->
                        IF k = key THEN row.opening_id ELSE acc.idx[k]]
                 ELSE acc.idx,
         max_len |-> Max(acc.max_len, Len(key))]

RECURSIVE build_exact_index(_, _)
\* _build_exact_index over the first n rows of the catalog
build_exact_index(openings, n) ==
    IF n = 0 THEN [idx |-> [k \in {} |-> NoId], max_len |-> 0]
    ELSE IndexRow(build_exact_index(openings, n - 1), openings[n])

RECURSIVE match_from(_, _, _)
\* the loop of lines 133-137, from prefix length k downwards
match_from(sans, ix, k) ==
    IF k = 0 THEN [opening_id |-> NoId, matched_plies |-> 0]
    ELSE IF Prefix(sans, k) \in DOMAIN ix
    THEN [opening_id |-> ix[Prefix(sans, k)], matched_plies |-> k]
    ELSE match_from(sans, ix, k - 1)

match_exact_longest(game_san, ix, max_key_len) ==
    match_from(game_san, ix, Min(Len(game_san), max_key_len))

Moves == {"e4", "e5"}

MoveLists == SeqsUpTo(Moves, MaxPlies + 1)

CatalogRows == {[opening_id |-> o, san |-> m] : o \in {1, 2}, m \in MoveLists}

\* Catalogs of no, one or two rows
Catalogs ==
    {<<>>} \cup {<<a>> : a \in CatalogRows}
           \cup {<<a, b>> : a \in CatalogRows, b \in CatalogRows}

InitOpenings ==
    /\ arg \in {[openings |-> c, game_san |-> g] : c \in Catalogs, g \in MoveLists}
    /\ now = 0
    /\ indexFile = NoIndexFile
    /\ rawFile = NoDataFile
    /\ gamesFile = NoDataFile
    /\ pc = "call"
    /\ idx = NoIndexFile.idx
    /\ i = 0
    /\ rows = <<>>
    /\ listStatus = "none"
    /\ reqs = <<>>
    /\ coldStart = FALSE
    /\ sameData = TRUE
    /\ before = NoDataFile
    /\ corruptStart = FALSE
    /\ crash = <<>>
    /\ ret = <<>>
    /\ progress = <<>>

\* _attach_opening_ids, lines 140-143
BuildIndexCall ==
    /\ pc = "call"
    /\ ret' = [built |-> build_exact_index(arg.openings, Len(arg.openings)),
               match |-> [opening_id |-> NoId, matched_plies |-> 0]]
    /\ pc' = "built"
    /\ UNCHANGED <<now, indexFile, rawFile, gamesFile, idx, i, rows,
                   listStatus, reqs, coldStart, sameData, before,
                   corruptStart, crash, arg, progress>>

\* _attach_opening_ids, lines 144-146, for one game
MatchCall ==
    /\ pc = "built"
    /\ ret' = [ret EXCEPT !.match =
                match_exact_longest(arg.game_san, ret.built.idx,
                                    ret.built.max_len)]
    /\ pc' = "matched"
    /\ UNCHANGED <<now, indexFile, rawFile, gamesFile, idx, i, rows,
                   listStatus, reqs, coldStart, sameData, before,
                   corruptStart, crash, arg, progress>>

NextOpenings == BuildIndexCall \/ MatchCall

SpecOpenings == InitOpenings /\ [][NextOpenings]_vars

-----------------------------------------------------------------------------
(* Claims *)

RowSet(df) == {df[n] : n \in 1..Len(df)}
UrlsOf(ix) == {ix.archives[n].url : n \in 1..Len(ix.archives)}
FailedFetch == ErrorStatuses \cup {"200-unparsable"}

\* C1: update_games with an existing dataset that has rows in months 1 and 2
\* and a non-empty batch whose rows all fall in month 2: the result holds
\* every existing month-1 row, no other month-1 row, and as month-2 rows
\* exactly the rows of the batch.
C1_MonthReplacement ==
    (/\ pc = "called"
     /\ before.exists
     /\ MonthRows(before.df, 1) # <<>>
     /\ MonthRows(before.df, 2) # <<>>
     /\ rows # <<>>
     /\ \A n \in 1..Len(rows) : ToPeriodM(rows[n].end_time) = 2)
    => /\ RowSet(MonthRows(rawFile.df, 1)) = RowSet(MonthRows(before.df, 1))
       /\ RowSet(MonthRows(rawFile.df, 2)) = RowSet(rows)

\* C2: the canonical dataset never holds two records with the same key,
\* the first sync of a user included.
C2_OneRecordPerKey ==
    \A m, n \in 1..Len(rawFile.df) :
        m # n => RowKey(rawFile.df[m]) # RowKey(rawFile.df[n])

\* C3: a run over an existing dataset in which every 200 answer repeats the
\* games the dataset already holds leaves the dataset as it was.
C3_SyncIdempotent ==
    (pc = "save_index" /\ before.exists /\ sameData)
    => SameBag(rawFile.df, before.df)

\* C4: an archive entry whose request was answered 304 has its updated_on
\* set to the current time, so it needs no update right afterwards.
C4_NotModifiedIsSynced ==
    \A n \in 1..Len(reqs) :
        reqs[n] = "304" => /\ idx.archives[n].updated_on = now
                           /\ ~is_update_needed(idx.archives[n], now)

\* C5: an archive URL of the persisted index is still in the persisted
\* index after every step of every later run.
C5_UrlsNeverRemoved ==
    [][UrlsOf(indexFile.idx) \subseteq UrlsOf(indexFile'.idx)]_vars

\* C6: when the archive list is refreshed with a 200 answer, every URL that
\* was in the index keeps its etag and updated_on, and the other URLs are
\* entries without etag and without updated_on.
C6_RefreshKeepsEntries ==
    [][(pc = "idle" /\ listStatus' = "200")
       => \A m \in 1..Len(idx'.archives) :
            IF idx'.archives[m].url \in UrlsOf(indexFile.idx)
            THEN \E n \in 1..Len(indexFile.idx.archives) :
                    /\ indexFile.idx.archives[n].url = idx'.archives[m].url
                    /\ indexFile.idx.archives[n].etag = idx'.archives[m].etag
                    /\ indexFile.idx.archives[n].updated_on
                            = idx'.archives[m].updated_on
            ELSE /\ idx'.archives[m].etag = NoStr
                 /\ idx'.archives[m].updated_on = NoTime]_vars

\* C7: when the archive-list request is answered 304, the archive entries
\* of the index the run goes on with, and of the index file it writes, are
\* those the index file held before.
C7_NotModifiedKeepsList ==
    [][(pc = "idle" /\ listStatus' = "304")
       => /\ idx'.archives = indexFile.idx.archives
          /\ indexFile'.idx.archives = indexFile.idx.archives]_vars

\* C8: a network error of the archive-list request is not raised: the run
\* goes on with the archive entries the index file holds.
C8_ListErrorNotRaised ==
    [][(pc = "idle" /\ listStatus' = "neterr")
       => /\ pc' # "raised"
          /\ idx'.archives = indexFile.idx.archives]_vars

\* C9: a run that starts with nothing on disk and whose archive-list
\* request is answered 404 does not raise; it returns with no rows stored
\* and load_games returns an empty dataset.
C9_UnknownUserEmpty ==
    (coldStart /\ listStatus = "404")
    => /\ pc # "raised"
       /\ pc = "returned" => (~rawFile.exists /\ load_games(gamesFile) = <<>>)

\* C10: a run in which the request of an archive entry failed does not
\* raise; it passes every archive entry and, when it returns, the dataset
\* holds the rows of the requests that succeeded.
C10_FailedFetchIsolated ==
    (\E n \in 1..Len(reqs) : reqs[n] \in FailedFetch)
    => /\ pc # "raised"
       /\ pc = "returned" => /\ Len(reqs) = Len(idx.archives)
                             /\ RowSet(rows) \subseteq RowSet(rawFile.df)

\* C11: a request of an archive entry that failed (network error, 429, 404,
\* another status, or a 200 whose body is not JSON) leaves the entry, its
\* etag and its timestamps, as it was before the request.
C11_FailedFetchKeepsEntry ==
    [][(/\ pc = "loop"
        /\ Len(reqs') = Len(reqs) + 1
        /\ reqs'[Len(reqs')] \in FailedFetch)
       => idx'.archives[i] = idx.archives[i]]_vars

\* C12: a run died after it wrote the dataset and before it wrote the index;
\* the next run, which fetches the same rows again and returns, ends with
\* the dataset the dead run left (what a run that did not die would have
\* ended with), and no row is in it twice.
C12_CrashRecovered ==
    (pc = "returned" /\ crash # <<>> /\ rows = crash)
    => /\ SameBag(rawFile.df, before.df)
       /\ \A m, n \in 1..Len(rawFile.df) :
            m # n => rawFile.df[m] # rawFile.df[n]

\* C13: when a run that returned got a 200 answer with no games for an
\* archive entry (the only entry of its URL), the dataset holds no row of
\* that month.
C13_EmptyPayloadReplacesMonth ==
    \A n \in 1..Len(reqs) :
        (/\ pc = "returned"
         /\ reqs[n] = "200-empty"
         /\ \A m \in 1..Len(idx.archives) :
                idx.archives[m].url = idx.archives[n].url => m = n)
        => MonthRows(rawFile.df, ArchiveMonth(idx.archives[n].url)) = <<>>

NoUrls(r) == r.game_url = NoStr /\ r.pgn_url = NoStr

\* C14: two rows of a batch that both lack game_url and pgn_url and differ
\* in end_time or in a username are both in the dataset after update_games.
C14_CompositeKey ==
    pc = "called"
    => \A m, n \in 1..Len(rows) :
        (/\ NoUrls(rows[m])
         /\ NoUrls(rows[n])
         /\ \/ rows[m].end_time # rows[n].end_time
            \/ rows[m].username # rows[n].username
            \/ rows[m].opponent_username # rows[n].opponent_username)
        => {rows[m], rows[n]} \subseteq RowSet(rawFile.df)

\* C15: when the dataset and the batch each hold a row with the same
\* game_url and the two rows differ, the dataset after update_games holds
\* exactly one row with that game_url, and it is a row of the batch.
C15_NewRecordWins ==
    (pc = "called" /\ before.exists)
    => \A n \in 1..Len(rows) :
        (/\ rows[n].game_url # NoStr
         /\ \E m \in 1..Len(before.df) :
                /\ before.df[m].game_url = rows[n].game_url
                /\ before.df[m] # rows[n])
        => LET same == {k \in 1..Len(rawFile.df) :
                            rawFile.df[k].game_url = rows[n].game_url}
           IN  /\ Cardinality(same) = 1
               /\ \A k \in same : rawFile.df[k] \in RowSet(rows)

\* The stored row and the new row of one game_url lie in different months,
\* so the stored row passes the month replacement and the keys decide.
C15_Witness ==
    /\ pc = "called"
    /\ before.exists
    /\ \E n \in 1..Len(rows), m \in 1..Len(before.df) :
        /\ rows[n].game_url # NoStr
        /\ before.df[m].game_url = rows[n].game_url
        /\ ToPeriodM(before.df[m].end_time) # ToPeriodM(rows[n].end_time)
        /\ rows[n] \in RowSet(rawFile.df)
        /\ before.df[m] \notin RowSet(rawFile.df)

\* C16: is_update_needed is true exactly when updated_on is unset or lies
\* more than 24 hours before now; 23 hours after the update it is false,
\* 25 hours after it is true.
C16_StaleAfter24Hours ==
    pc = "called"
    => /\ ret = (arg.updated_on = NoTime \/ now - arg.updated_on > 24)
       /\ (arg.updated_on # NoTime /\ now - arg.updated_on = 23) => ~ret
       /\ (arg.updated_on # NoTime /\ now - arg.updated_on = 25) => ret

\* is_update_needed was called 25 hours after the update and said TRUE.
C16_Witness ==
    /\ pc = "called"
    /\ arg.updated_on # NoTime
    /\ now - arg.updated_on = 25
    /\ ret = TRUE

\* C17: load_games makes no request and leaves index.json, raw.parquet and
\* games.parquet as they are; it returns the rows of games.parquet, and an
\* empty dataset when there is no games.parquet.
C17_LoadIsPureRead ==
    [][(pc = "idle" /\ pc' = "loaded")
       => /\ indexFile' = indexFile
          /\ rawFile' = rawFile
          /\ gamesFile' = gamesFile
          /\ reqs' = reqs
          /\ listStatus' = listStatus
          /\ ret' = (IF gamesFile.exists THEN gamesFile.df ELSE <<>>)]_vars

\* load_games has returned an empty dataset while no games.parquet is on
\* disk.
C17_Witness ==
    /\ pc = "loaded"
    /\ ~gamesFile.exists
    /\ ret = <<>>

\* C18: a run that starts with an index.json that does not parse does what
\* a run without index.json does: it requests the archive list, goes on
\* with the index download_index builds from the answer and saves it, every
\* entry of that index needs an update, and the loop skips none of them.
\* The parse failure is not raised: the start raises only when the
\* archive-list request itself does.
C18_CorruptIndexIsNoIndex ==
    [][/\ (pc = "idle" /\ indexFile.exists /\ ~indexFile.valid
              /\ listStatus' # "none")
          => /\ listStatus' # "skip"
             /\ pc' = "raised" => listStatus' = "neterr"
             /\ pc' # "raised"
                => /\ pc' = "loop"
                   /\ \E r \in ListResponses :
                        /\ r.status = listStatus'
                        /\ idx' = download_index(r, now)
                   /\ indexFile' = save_index(idx')
                   /\ \A n \in 1..Len(idx'.archives) :
                        is_update_needed(idx'.archives[n], now)
       /\ (corruptStart /\ Len(reqs') = Len(reqs) + 1)
          => reqs'[Len(reqs')] # "skip"]_vars

\* A run that started with an unparsable index.json has fetched every
\* archive of the list and returned.
C18_Witness ==
    /\ corruptStart
    /\ pc = "returned"
    /\ listStatus = "200"
    /\ Len(reqs) = Len(idx.archives)
    /\ Len(reqs) > 1
    /\ \A n \in 1..Len(reqs) : reqs[n] = "200"
    /\ indexFile.valid

\* C19: a run that got a 200 answer holding a game in which neither player
\* is the tracked user does not raise; when it returns, the rows of the
\* other games are in the dataset and the game of neither player is not.
C19_AnomalyDropped ==
    (\E n \in 1..Len(reqs) : reqs[n] = "200-anomaly")
    => /\ pc # "raised"
       /\ pc = "returned"
          => /\ RowSet(rows) \subseteq RowSet(rawFile.df)
             /\ \A n \in 1..Len(rawFile.df) : rawFile.df[n].game_url # "u3"

\* The payload username p is the tracked username u after lowercasing both.
SameUser(p, u) == p # NoStr /\ Lower(p) = Lower(u)

\* C20: when exactly one player's username equals the tracked username
\* after lowercasing both, from_game does not raise and the row has that
\* player's colour, rating and result as the user's.
C20_CaseInsensitiveMatch ==
    pc = "called"
    => /\ (/\ SameUser(arg.g.white.username, arg.username)
           /\ ~SameUser(arg.g.black.username, arg.username))
          => /\ ~ret.raised
             /\ ret.row.user_played_as = "white"
             /\ ret.row.user_rating = arg.g.white.rating
             /\ ret.row.user_result = arg.g.white.result
       /\ (/\ SameUser(arg.g.black.username, arg.username)
           /\ ~SameUser(arg.g.white.username, arg.username))
          => /\ ~ret.raised
             /\ ret.row.user_played_as = "black"
             /\ ret.row.user_rating = arg.g.black.rating
             /\ ret.row.user_result = arg.g.black.result

DrawCodes ==
    {"agreed", "stalemate", "repetition", "insufficient", "50move",
     "timevsinsufficient"}
LossCodes == {"checkmated", "resigned", "timeout", "abandoned", "lose"}

\* The bucket of a result code, by the table of the result mapping
Bucket(c) ==
    IF c = NoStr THEN NoStr
    ELSE IF c = "win" THEN "win"
    ELSE IF c \in DrawCodes THEN "draw"
    ELSE IF c \in LossCodes THEN "loss"
    ELSE NoStr

\* C21 as stated: user_result_simple is the bucket of the raw result code
\* as it is: win for "win", draw for the six draw codes, loss for the five
\* loss codes, null for every other code and for a missing code; never a
\* raise.
C21_AsStated ==
    pc = "called"
    => /\ ~ret.raised
       /\ ret.row.user_result_simple = Bucket(ret.row.user_result)

\* C21 as amended: user_result_simple is the bucket of the raw result code
\* in lowercase; a missing code, and every code whose lowercase form is in
\* no bucket, gives null; never a raise.
C21_SimplifyResult ==
    pc = "called"
    => /\ ~ret.raised
       /\ ret.row.user_result_simple = Bucket(ResultLower(ret.row.user_result))
       /\ ret.row.user_result = NoStr => ret.row.user_result_simple = NoStr
       /\ ret.row.user_result \in {"adjudicated", "kingofthehill"}
            => ret.row.user_result_simple = NoStr

\* from_game has bucketed a code no bucket holds.
C21_Witness ==
    /\ pc = "called"
    /\ ret.row.user_result = "adjudicated"
    /\ ret.row.user_result_simple = NoStr
    /\ ~ret.raised

\* The prefix lengths from lo up to the ply bound at which the game's
\* moves are a key of the index
KeyLengths(lo) ==
    {k \in lo..Min(Len(arg.game_san), MaxPlies) :
        Prefix(arg.game_san, k) \in DOMAIN ret.built.idx}

Largest(S) == CHOOSE k \in S : \A m \in S : m <= k

\* C22: the matcher returns (id, k), k the largest prefix length from 0 up
\* to the ply bound at which the game's first k moves are a key of the
\* index and id that key's value; when no length, 0 included, is a key, it
\* returns (null, 0).
C22_LongestPrefix ==
    pc = "matched"
    => IF KeyLengths(0) = {}
       THEN ret.match = [opening_id |-> NoId, matched_plies |-> 0]
       ELSE ret.match =
                [opening_id |->
                    ret.built.idx[Prefix(arg.game_san, Largest(KeyLengths(0)))],
                 matched_plies |-> Largest(KeyLengths(0))]

\* The catalog in another row order
Reordered(p) == [n \in 1..Len(arg.openings) |-> arg.openings[p[n]]]

\* The opening ids of the catalog rows whose truncated moves are key
IdsOf(key) ==
    {arg.openings[n].opening_id : n \in
        {m \in 1..Len(arg.openings) :
            Prefix(arg.openings[m].san, MaxPlies) = key}}

\* C27: the opening index does not depend on the order of the catalog rows:
\* a move sequence shared by several rows after truncation to the ply
\* bound is mapped to the smallest opening_id among them, for every
\* ordering of the rows.
C27_IndexOrderIndependent ==
    pc \in {"built", "matched"}
    => /\ \A p \in Permutations(1..Len(arg.openings)) :
            build_exact_index(Reordered(p), Len(arg.openings)).idx
                = ret.built.idx
       /\ DOMAIN ret.built.idx =
            {Prefix(arg.openings[n].san, MaxPlies) : n \in 1..Len(arg.openings)}
       /\ \A key \in DOMAIN ret.built.idx :
            /\ ret.built.idx[key] \in IdsOf(key)
            /\ \A o \in IdsOf(key) : ret.built.idx[key] <= o

\* The index has been built from two rows with different moves that are
\* the same after truncation, the row with the larger id first, and the
\* key is mapped to the smaller id.
C27_Witness ==
    /\ pc = "built"
    /\ Len(arg.openings) = 2
    /\ arg.openings[1].san # arg.openings[2].san
    /\ Len(arg.openings[1].san) > MaxPlies
    /\ Prefix(arg.openings[1].san, MaxPlies) = Prefix(arg.openings[2].san, MaxPlies)
    /\ arg.openings[1].opening_id > arg.openings[2].opening_id
    /\ ret.built.idx[Prefix(arg.openings[1].san, MaxPlies)]
         = arg.openings[2].opening_id

UniqueUrls(ix) ==
    \A m, n \in 1..Len(ix.archives) :
        ix.archives[m].url = ix.archives[n].url => m = n

\* C23: in every state of the index, in memory and on disk, no archive URL
\* is in more than one entry of the archive collection, also when a 200
\* answer to the archive-list request lists a URL twice.
C23_UniqueUrls == UniqueUrls(idx) /\ UniqueUrls(indexFile.idx)

\* The positions of the entries of the run's index that were requested
Requested == {n \in 1..Len(reqs) : reqs[n] # "skip"}

\* C24: within one run there is no inline retry: the archive list is
\* requested at most once (listStatus is the one answer of the run) and no
\* archive URL is requested more than once, whatever the answers are.
C24_NoInlineRetry ==
    \A m, n \in Requested :
        idx.archives[m].url = idx.archives[n].url => m = n

\* The URLs whose entry in index.json was synced less than 24 hours ago
FreshOnDisk ==
    IF load_index(indexFile).found
    THEN {e.url : e \in {load_index(indexFile).idx.archives[n] :
                    n \in 1..Len(load_index(indexFile).idx.archives)} \cap
                  {e \in {load_index(indexFile).idx.archives[n] :
                    n \in 1..Len(load_index(indexFile).idx.archives)} :
                      ~is_update_needed(e, now)}}
    ELSE {}

\* C25: a run requests an archive entry if and only if the entry needs an
\* update when the loop reaches it, and an archive whose last-synced
\* timestamp in index.json is less than 24 hours old when a run starts has
\* an entry that needs no update in that run, so the run does not request
\* it.
C25_RequestIffNeedsSync ==
    [][/\ (pc = "idle" /\ pc' = "loop")
            => \A n \in 1..Len(idx'.archives) :
                idx'.archives[n].url \in FreshOnDisk
                    => ~is_update_needed(idx'.archives[n], now)
       /\ (pc = "loop" /\ Len(reqs') = Len(reqs) + 1)
            => (reqs'[Len(reqs')] # "skip"
                    <=> is_update_needed(idx.archives[i], now))]_vars

\* The loop over idx.archives of this run is over.
LoopDone ==
    \/ pc = "loop" /\ i > Len(idx.archives)
    \/ pc \in {"save_index", "enrich", "returned"}

\* C26: in a run over an index of n archive entries, progress_cb has been
\* called once for each of the n entries when the loop is over, for the
\* skipped and the failed ones too, every time with total = n + 2.
C26_ProgressPerEntry ==
    LoopDone
    => /\ \A n \in 1..Len(idx.archives) :
            Cardinality({k \in 1..Len(progress) : progress[k][1] = n}) = 1
       /\ \A k \in 1..Len(progress) : progress[k][2] = Len(idx.archives) + 2

\* This run has written rows to raw.parquet (it passed line 72).
WroteRows ==
    \E k \in 1..Len(progress) : progress[k][1] = Len(idx.archives) + 1

\* The step from line 77 called _preprocess_and_save.
EnrichmentRan == Len(progress') = Len(progress) + 1

C29_IndexPersisted ==
    pc = "returned" => indexFile.exists /\ indexFile.valid /\ indexFile.idx = idx

\* C30: after a run that returns normally, games.parquet has exactly one
\* row for each record of raw.parquet and no other row.
C30_EnrichedMatchesRaw ==
    pc = "returned"
    => /\ rawFile.exists
       /\ gamesFile.exists
       /\ gamesFile.df = [n \in 1..Len(rawFile.df) |-> EnrichRow(rawFile.df[n])]

====
